---- MODULE Spec2Model ----
(***************************************************************************)
(* ING SIMP report handler (src/simp.py): the report discovery and         *)
(* pagination loop of SimpReport.get_reports / get_report against the      *)
(* bank's SOAP endpoint, the per-report decoding, the three CLI handlers   *)
(* (get, save, send) and main's exit code.                                 *)
(*                                                                         *)
(* The bank is the environment.  For the report date of a call it holds a  *)
(* set srv of report ids; a probe for slot s is answered with the smallest *)
(* held id >= s, or with a business error (a RuleDesc node) when there is  *)
(* none.  A fetch of a held report is answered with a payload chosen by    *)
(* the bank (or, exceptionally, with a business error); a fetch of an id   *)
(* the bank does not hold is answered with a business error.  Any request  *)
(* may instead fail at transport level, which raises in requests.post /    *)
(* ET.fromstring.                                                          *)
(***************************************************************************)
EXTENDS Integers, Sequences, FiniteSets, TLC

\* ---------------------------------------------------------------- bounds
MaxId == 1        \* report ids the bank may hold for a date: 0..MaxId
MaxNtry == 1      \* transactions in one report: 0..MaxNtry
MaxCalls == 2     \* get_reports calls on one SimpReport object

Ids == 0..MaxId
Modes == {"get", "save", "send", "direct"}

VARIABLES
    mode,       \* args.mode; "direct" is a caller using get_reports itself
    force,      \* args.force
    srv,        \* report ids the bank holds for the date of this call
    raw,        \* the raw argument of get_reports
    pc,         \* position of the run
    slot,       \* rpt_id argument of the pending get_report call
    data,       \* the data dict of the running get_report / last returned report
    reports,    \* self.reports
    reqs,       \* SOAP requests sent during this get_reports call
    errLog,     \* logging.error lines emitted during this get_reports call
    xform,      \* report ids ntrys2simp was invoked for during this call
    out,        \* what the handler printed / wrote, in order
    mailed,     \* send_mail was called
    result,     \* the handler's return value in main
    exitCode,   \* process exit code, -1 while running
    exc,        \* the exception that ended the run, "none" otherwise
    calls,      \* number of get_reports calls made on the object
    ntrys,      \* the Ntry nodes an ntrys2simp call has gone through
    simp,       \* the locals of an ntrys2simp call (data, lines, ret)
    doc         \* a document given to remove_namespace, and its passes

\* the variables of the pagination run, and those of the two functions that
\* are followed on their own: ntrys2simp and remove_namespace
hvars == <<ntrys, simp, doc>>
vars == <<mode, force, srv, raw, pc, slot, data, reports, reqs, errLog, xform,
          out, mailed, result, exitCode, exc, calls, ntrys, simp, doc>>

\* ------------------------------------------------------------ data shapes
EmptyText == [kind |-> "empty", cnt |-> 0]
NoneText == [kind |-> "none", cnt |-> 0]
NoFn == [kind |-> "none", n |-> 0]

\* data = {...} at the top of get_report
NewData == [simp_report |-> NoneText, simp_report_fn |-> NoFn,
            trans_count |-> 0, rpt_id |-> 0, status |-> TRUE]

\* ------------------------------------------------------------------ bank
Min(S) == CHOOSE x \in S : \A y \in S : x <= y

\* the RptId/EQ the bank answers a probe for slot s with; -1: RuleDesc
Resolve(S, s) ==
    IF \E x \in S : x >= s THEN Min({x \in S : x >= s}) ELSE -1

\* RAW response bodies: RptDtls present, RptFile present, RptNm present, and
\* the count in the payload's footer "il.trn.:<n> " (-1: no footer).  The bank
\* names a report after its id.
NoDtls == [dtls |-> FALSE, file |-> FALSE, nm |-> FALSE, cnt |-> -1]
RawBodies ==
    {NoDtls}
    \cup {[dtls |-> TRUE, file |-> FALSE, nm |-> n, cnt |-> -1] : n \in BOOLEAN}
    \cup {[dtls |-> TRUE, file |-> TRUE, nm |-> n, cnt |-> c] :
              n \in BOOLEAN, c \in (-1)..MaxNtry}

\* --------------------------------------------------------- send_soap_request
\* lines 149-155: the error-level line is written when RuleDesc is present and
\* self.reports is still empty
LogAfter(err) == IF err /\ Len(reports) = 0 THEN errLog + 1 ELSE errLog

\* one SOAP request and its answer: res is "ok", "rule" (RuleDesc present) or
\* "exc" (the request raised); cnt is the number of Ntry nodes in the answer,
\* body the RptDtls part of it
Request(kind, id, res, cnt) ==
    [kind |-> kind, id |-> id, res |-> res, cnt |-> cnt, body |-> NoDtls]

\* ---------------------------------------------------------------- get_rpt_id
\* lines 163-171: (int(rpt_id), status); rpt_id stays the slot on RuleDesc
get_rpt_id_keepslot(s) ==
    [rpt_id |-> s, status |-> Resolve(srv, s) # -1]

get_rpt_id(s) ==
    LET r == Resolve(srv, s)
    IN  [rpt_id |-> IF r # -1 THEN r ELSE s, status |-> r # -1]

\* ------------------------------------------------- process_report_file_xml
\* lines 253-264 (the decode itself succeeding)
process_report_file_xml_noFallback(b, id) ==
    [simp_report |-> IF b.dtls /\ b.file THEN [kind |-> "raw", cnt |-> b.cnt]
                     ELSE EmptyText,
     simp_report_fn |-> IF b.dtls THEN [kind |-> "RptNm", n |-> id]
                        ELSE [kind |-> "temp", n |-> 0]]

process_report_file_xml(b, id) ==
    [simp_report |-> IF b.dtls /\ b.file THEN [kind |-> "raw", cnt |-> b.cnt]
                     ELSE EmptyText,
     simp_report_fn |-> IF b.dtls /\ b.nm THEN [kind |-> "RptNm", n |-> id]
                        ELSE [kind |-> "temp", n |-> 0]]

\* lines 206-208: re.findall('"il.trn.:(\d+) ', text)
RawTransCount(text) == IF text.kind = "raw" /\ text.cnt >= 0 THEN text.cnt ELSE 0

\* lines 204-209: the record get_report appends in the RAW format
RawRecord_fetchStatus(d, b) ==
    LET p == process_report_file_xml(b, d.rpt_id)
    IN  [d EXCEPT !.simp_report = p.simp_report,
                  !.simp_report_fn = p.simp_report_fn,
                  !.trans_count = RawTransCount(p.simp_report),
                  !.status = d.status /\ b.dtls]

RawRecord(d, b) ==
    LET p == process_report_file_xml(b, d.rpt_id)
    IN  [d EXCEPT !.simp_report = p.simp_report,
                  !.simp_report_fn = p.simp_report_fn,
                  !.trans_count = RawTransCount(p.simp_report)]

\* ------------------------------------------------------------------ ntrys2simp
\* lines 267-320, by its footer count
ntrys2simp(n) == [kind |-> "simp", cnt |-> n]

\* lines 212-222: the record get_report appends in the itemized format
XmlRecord_emptyIsError(d, n) ==
    [d EXCEPT !.trans_count = n,
              !.simp_report_fn = [kind |-> "ING-SIMP", n |-> d.rpt_id],
              !.simp_report = IF n > 0 THEN ntrys2simp(n) ELSE EmptyText,
              !.status = d.status /\ n > 0]

XmlRecord(d, n) ==
    [d EXCEPT !.trans_count = n,
              !.simp_report_fn = [kind |-> "ING-SIMP", n |-> d.rpt_id],
              !.simp_report = IF n > 0 THEN ntrys2simp(n) ELSE EmptyText]

\* ------------------------------------------------------------------ get_reports
\* line 182: while report['status'] is True
LoopCond_rawOnce(report) == report.status = TRUE /\ ~raw
LoopCond_always(report) == TRUE

LoopCond(report) == report.status = TRUE

\* line 183
NextReportId_same(report) == report.rpt_id

NextReportId(report) == report.rpt_id + 1

\* lines 327, 337, 354: what a handler outputs
Usable(r) == r.status = TRUE /\ r.trans_count > 0

\* the pagination of a date stays within these caps: a probe goes no further
\* than one past the last id, and a fetch follows at most one probe per held id
InBounds == slot <= MaxId + 1 /\ Len(reports) <= MaxId + 1

\* ------------------------------------------------------------------------ Init
SimpIdle == [pc |-> "idle"]
DocIdle == [pc |-> "idle"]

Init ==
    /\ ntrys = <<>>
    /\ simp = SimpIdle
    /\ doc = DocIdle
    /\ mode \in Modes
    /\ force \in BOOLEAN
    /\ srv = {}
    /\ raw = TRUE
    /\ pc = "call"
    /\ slot = 0
    /\ data = NewData
    /\ reports = <<>>                 \* line 96
    /\ reqs = <<>>
    /\ errLog = 0
    /\ xform = {}
    /\ out = <<>>
    /\ mailed = FALSE
    /\ result = FALSE                 \* line 407
    /\ exitCode = -1
    /\ exc = "none"
    /\ calls = 0

\* --------------------------------------------------------------------- actions
\* get_reports entered (lines 174-181): reset self.reports, first get_report
\* at slot 0.  The handlers call get_reports(self.args.date), so raw = True.
GetReports_noReset ==
    /\ \/ pc = "call"
       \/ pc = "returned" /\ mode = "direct"
    /\ calls < MaxCalls
    /\ \E S \in SUBSET Ids, r \in BOOLEAN :
          /\ mode # "direct" => r = TRUE
          /\ srv' = S
          /\ raw' = r
    /\ reports' = reports
    /\ slot' = 0
    /\ data' = NewData
    /\ reqs' = <<>>
    /\ errLog' = 0
    /\ xform' = {}
    /\ calls' = calls + 1
    /\ pc' = "probe"
    /\ UNCHANGED <<mode, force, out, mailed, result, exitCode, exc>>
    /\ UNCHANGED hvars

GetReports ==
    /\ \/ pc = "call"
       \/ pc = "returned" /\ mode = "direct"
    /\ calls < MaxCalls
    /\ \E S \in SUBSET Ids, r \in BOOLEAN :
          /\ mode # "direct" => r = TRUE
          /\ srv' = S
          /\ raw' = r
    /\ reports' = <<>>
    /\ slot' = 0
    /\ data' = NewData
    /\ reqs' = <<>>
    /\ errLog' = 0
    /\ xform' = {}
    /\ calls' = calls + 1
    /\ pc' = "probe"
    /\ UNCHANGED <<mode, force, out, mailed, result, exitCode, exc>>
    /\ UNCHANGED hvars

\* get_report lines 189-201: the probe (get_rpt_id -> send_soap_request)
Probe ==
    /\ pc = "probe"
    /\ InBounds
    /\ LET p == get_rpt_id(slot)
       IN  /\ data' = [NewData EXCEPT !.rpt_id = p.rpt_id, !.status = p.status]
           /\ reqs' = Append(reqs, Request("probe", slot,
                                           IF p.status THEN "ok" ELSE "rule", 0))
           /\ errLog' = LogAfter(~p.status)
    /\ pc' = "fetch"
    /\ UNCHANGED <<mode, force, srv, raw, slot, reports, xform, out, mailed,
                   result, exitCode, exc, calls>>
    /\ UNCHANGED hvars

\* get_report lines 203-209 and 224: the RAW fetch, decode, append
FetchRaw ==
    /\ pc = "fetch"
    /\ raw
    /\ InBounds
    /\ \E b \in RawBodies, err \in BOOLEAN :
          /\ data.rpt_id \notin srv => err
          /\ err => b = NoDtls
          /\ reqs' = Append(reqs, [Request("fetch", data.rpt_id,
                                           IF err THEN "rule" ELSE "ok", 0)
                                       EXCEPT !.body = b])
          /\ errLog' = LogAfter(err)
          /\ data' = RawRecord(data, b)
          /\ reports' = Append(reports, RawRecord(data, b))
    /\ pc' = "loop"
    /\ UNCHANGED <<mode, force, srv, raw, slot, xform, out, mailed, result,
                   exitCode, exc, calls>>
    /\ UNCHANGED hvars

\* get_report lines 211-224: the itemized fetch, transform, append
FetchXml ==
    /\ pc = "fetch"
    /\ ~raw
    /\ InBounds
    /\ \E n \in 0..MaxNtry, err \in BOOLEAN :
          /\ data.rpt_id \notin srv => err
          /\ err => n = 0
          /\ reqs' = Append(reqs, Request("fetch", data.rpt_id,
                                          IF err THEN "rule" ELSE "ok", n))
          /\ errLog' = LogAfter(err)
          /\ xform' = IF n > 0 THEN xform \cup {data.rpt_id} ELSE xform
          /\ data' = XmlRecord(data, n)
          /\ reports' = Append(reports, XmlRecord(data, n))
    /\ pc' = "loop"
    /\ UNCHANGED <<mode, force, srv, raw, slot, out, mailed, result,
                   exitCode, exc, calls>>
    /\ UNCHANGED hvars

\* get_reports lines 182-186: the loop test on the report just returned
LoopTest ==
    /\ pc = "loop"
    /\ IF LoopCond(data)
       THEN /\ slot' = NextReportId(data)
            /\ pc' = "probe"
       ELSE /\ slot' = slot
            /\ pc' = "returned"
    /\ UNCHANGED <<mode, force, srv, raw, data, reports, reqs, errLog, xform,
                   out, mailed, result, exitCode, exc, calls>>
    /\ UNCHANGED hvars

\* an uncaught exception ends the process (traceback, exit status 1)
Raise_retry(e) ==
    /\ exc' = e
    /\ pc' = pc
    /\ exitCode' = exitCode

Raise(e) ==
    /\ exc' = e
    /\ pc' = "crashed"
    /\ exitCode' = 1

\* lines 143-144: requests.post or ET.fromstring raises
TransportFail ==
    /\ pc \in {"probe", "fetch"}
    /\ InBounds
    /\ reqs' = Append(reqs, Request(pc, IF pc = "probe" THEN slot ELSE data.rpt_id,
                                    "exc", 0))
    /\ Raise("transport")
    /\ UNCHANGED <<mode, force, srv, raw, slot, data, reports, errLog, xform,
                   out, mailed, result, calls>>
    /\ UNCHANGED hvars

\* line 256: b64decode(...).decode(bank_encoding) raises on the fetched payload
DecodeFail ==
    /\ pc = "fetch"
    /\ raw
    /\ InBounds
    /\ data.rpt_id \in srv
    /\ \E b \in RawBodies :
          /\ b.dtls /\ b.file
          /\ reqs' = Append(reqs, [Request("fetch", data.rpt_id, "ok", 0)
                                       EXCEPT !.body = b])
    /\ Raise("decode")
    /\ UNCHANGED <<mode, force, srv, raw, slot, data, reports, errLog, xform,
                   out, mailed, result, calls>>
    /\ UNCHANGED hvars

\* lines 282-307: an xpath(...)[0] on an absent node raises IndexError
EntryFail ==
    /\ pc = "fetch"
    /\ ~raw
    /\ InBounds
    /\ data.rpt_id \in srv
    /\ \E n \in 1..MaxNtry :
          reqs' = Append(reqs, Request("fetch", data.rpt_id, "ok", n))
    /\ xform' = xform \cup {data.rpt_id}
    /\ Raise("index")
    /\ UNCHANGED <<mode, force, srv, raw, slot, data, reports, errLog,
                   out, mailed, result, calls>>
    /\ UNCHANGED hvars

\* what the handlers' loops over self.reports output (lines 326-328, 336-341,
\* 353-359)
Outputs == SelectSeq(reports, Usable)

\* lines 323-330
Get ==
    /\ pc = "returned"
    /\ mode = "get"
    /\ out' = Outputs
    /\ result' = TRUE
    /\ pc' = "handled"
    /\ UNCHANGED <<mode, force, srv, raw, slot, data, reports, reqs, errLog,
                   xform, mailed, exitCode, exc, calls>>
    /\ UNCHANGED hvars

\* lines 333-343
Save ==
    /\ pc = "returned"
    /\ mode = "save"
    /\ out' = Outputs
    /\ result' = TRUE
    /\ pc' = "handled"
    /\ UNCHANGED <<mode, force, srv, raw, slot, data, reports, reqs, errLog,
                   xform, mailed, exitCode, exc, calls>>
    /\ UNCHANGED hvars

\* lines 346-365
Send_alwaysMail ==
    /\ pc = "returned"
    /\ mode = "send"
    /\ out' = Outputs
    /\ mailed' = TRUE
    /\ result' = TRUE
    /\ pc' = "handled"
    /\ UNCHANGED <<mode, force, srv, raw, slot, data, reports, reqs, errLog,
                   xform, exitCode, exc, calls>>
    /\ UNCHANGED hvars

Send ==
    /\ pc = "returned"
    /\ mode = "send"
    /\ out' = Outputs
    /\ mailed' = (Len(Outputs) > 0)
    /\ result' = TRUE
    /\ pc' = "handled"
    /\ UNCHANGED <<mode, force, srv, raw, slot, data, reports, reqs, errLog,
                   xform, exitCode, exc, calls>>
    /\ UNCHANGED hvars

\* main lines 414-416
Exit ==
    /\ pc = "handled"
    /\ exitCode' = IF result THEN 0 ELSE 12
    /\ pc' = "exit"
    /\ UNCHANGED <<mode, force, srv, raw, slot, data, reports, reqs, errLog,
                   xform, out, mailed, result, exc, calls>>
    /\ UNCHANGED hvars

Next ==
    \/ GetReports
    \/ Probe
    \/ FetchRaw
    \/ FetchXml
    \/ LoopTest
    \/ TransportFail
    \/ DecodeFail
    \/ EntryFail
    \/ Get
    \/ Save
    \/ Send
    \/ Exit

Spec == Init /\ [][Next]_vars

\* the interpreter runs the single thread to its end: a step that can be
\* taken is taken
FairSpec == Spec /\ WF_vars(Next)

\* ======================================================================
\* float arithmetic of ntrys2simp (lines 308-309)
\* ======================================================================
\* Python's float is the IEEE 754 double: a 53 bit mantissa, round to nearest,
\* ties to even.  A double is [m |-> the mantissa bits, most significant
\* first, m[1] = 1, e |-> the exponent of the last bit]; zero has m = <<>>.
MantBits == 53
\* the bit strings are worked on in chunks of ChunkBits bits, which fit a
\* machine integer
ChunkBits == 12

FZero == [m |-> <<>>, e |-> 0]
Zeros(n) == [i \in 1..n |-> 0]
Front(b) == SubSeq(b, 1, Len(b) - 1)
LastBits(b, n) == SubSeq(b, Len(b) - n + 1, Len(b))
DropLast(b, n) == SubSeq(b, 1, Len(b) - n)

RECURSIVE BitsOf(_)
BitsOf(n) == IF n = 0 THEN <<>> ELSE Append(BitsOf(n \div 2), n % 2)

\* n as exactly w bits
BitsOfWidth(n, w) == LET b == BitsOf(n) IN Zeros(w - Len(b)) \o b

RECURSIVE BitsToInt(_)
BitsToInt(b) == IF b = <<>> THEN 0 ELSE 2 * BitsToInt(Front(b)) + b[Len(b)]

StripLead(b) ==
    IF \A i \in 1..Len(b) : b[i] = 0 THEN <<>>
    ELSE LET p == CHOOSE i \in 1..Len(b) :
                      b[i] = 1 /\ \A j \in 1..(i - 1) : b[j] = 0
         IN  SubSeq(b, p, Len(b))

\* b + 1
Inc(b) ==
    IF \A i \in 1..Len(b) : b[i] = 1 THEN <<1>> \o Zeros(Len(b))
    ELSE LET p == CHOOSE i \in 1..Len(b) :
                      b[i] = 0 /\ \A j \in (i + 1)..Len(b) : b[j] = 1
         IN  [i \in 1..Len(b) |-> IF i < p THEN b[i] ELSE IF i = p THEN 1 ELSE 0]

\* round the exact value bits * 2^e (+ a nonzero rest below the last bit when
\* sticky) to the nearest double, ties to even
RoundToDouble(bits0, e, sticky) ==
    LET bits == StripLead(bits0)
        n == Len(bits)
    IN  IF n = 0 THEN FZero
        ELSE IF n <= MantBits
        THEN [m |-> bits \o Zeros(MantBits - n), e |-> e - (MantBits - n)]
        ELSE LET keep == SubSeq(bits, 1, MantBits)
                 rb == bits[MantBits + 1]
                 st == sticky \/ \E i \in (MantBits + 2)..n : bits[i] = 1
                 up == rb = 1 /\ (st \/ keep[MantBits] = 1)
                 r == IF up THEN Inc(keep) ELSE keep
                 drop == n - MantBits
             IN  IF Len(r) > MantBits
                 THEN [m |-> Front(r), e |-> e + drop + 1]
                 ELSE [m |-> r, e |-> e + drop]

\* n further quotient bits of r / den, r < den
RECURSIVE DivBits(_, _, _)
DivBits(acc, den, n) ==
    IF n = 0 THEN acc
    ELSE LET w == IF n < ChunkBits THEN n ELSE ChunkBits
             x == acc.r * 2^w
         IN  DivBits([bits |-> acc.bits \o BitsOfWidth(x \div den, w),
                      r |-> x % den], den, n - w)

\* num / den scaled into [1, 2): [num, den, e] with num/den * 2^e unchanged
RECURSIVE Scale(_, _, _)
Scale(num, den, e) ==
    IF num >= 2 * den THEN Scale(num, 2 * den, e + 1)
    ELSE IF num < den THEN Scale(2 * num, den, e - 1)
    ELSE [num |-> num, den |-> den, e |-> e]

\* float("<k div 100>.<k mod 100>"): the double nearest to k / 100
FloatOfCents(k) ==
    IF k = 0 THEN FZero
    ELSE LET s == Scale(k, 100, 0)
             q == DivBits([bits |-> <<1>>, r |-> s.num - s.den], s.den, MantBits)
         IN  RoundToDouble(q.bits, s.e - MantBits, q.r # 0)

\* bits * c + carry for a small c, exactly
RECURSIVE MulBits(_, _, _)
MulBits(b, c, carry) ==
    IF b = <<>> THEN BitsOf(carry)
    ELSE LET w == IF Len(b) < ChunkBits THEN Len(b) ELSE ChunkBits
             v == BitsToInt(LastBits(b, w)) * c + carry
         IN  MulBits(DropLast(b, w), c, v \div 2^w) \o BitsOfWidth(v % 2^w, w)

\* x * 100 (line 308)
FloatTimes100(x) == RoundToDouble(MulBits(x.m, 100, 0), x.e, FALSE)

\* a + b + carry of two bit strings of equal length, exactly
RECURSIVE AddBits(_, _, _)
AddBits(a, b, carry) ==
    IF a = <<>> THEN BitsOf(carry)
    ELSE LET w == IF Len(a) < ChunkBits THEN Len(a) ELSE ChunkBits
             v == BitsToInt(LastBits(a, w)) + BitsToInt(LastBits(b, w)) + carry
         IN  AddBits(DropLast(a, w), DropLast(b, w), v \div 2^w)
                 \o BitsOfWidth(v % 2^w, w)

\* x + y (line 309), x, y >= 0
FloatAdd(x, y) ==
    IF x.m = <<>> THEN y
    ELSE IF y.m = <<>> THEN x
    ELSE LET e == IF x.e < y.e THEN x.e ELSE y.e
             a == x.m \o Zeros(x.e - e)
             b == y.m \o Zeros(y.e - e)
             n == IF Len(a) > Len(b) THEN Len(a) ELSE Len(b)
         IN  RoundToDouble(AddBits(Zeros(n - Len(a)) \o a,
                                   Zeros(n - Len(b)) \o b, 0), e, FALSE)

\* int(x) (line 308), x >= 0: truncation
FloatToInt(x) ==
    IF x.m = <<>> \/ -x.e >= Len(x.m) THEN 0
    ELSE IF x.e >= 0 THEN BitsToInt(x.m \o Zeros(x.e))
    ELSE BitsToInt(SubSeq(x.m, 1, Len(x.m) + x.e))

\* line 308: data['cammount'] = int(float(data['ammount']) * 100)
Cammount(k) == FloatToInt(FloatTimes100(FloatOfCents(k)))

\* ======================================================================
\* ntrys2simp (lines 267-320), entry by entry
\* ======================================================================
MaxCents == 29    \* amounts of an entry, in cents: 0..MaxCents
MaxEntries == 2   \* Ntry nodes of one report

\* the nodes ntrys2simp reads from an entry
Nodes == {"Ref", "BookgDt", "TxDt", "TrnSrc", "OpSgn", "AcctId", "Ccy",
          "DbtrId", "Nm", "MemoFld", "AmtDtls"}
\* lines 290-305: only the payer names are read under try / except IndexError
SoftNodes == {"Nm"}

Dates == {1, 2}

\* an Ntry node: the node it lacks ("none": complete; "Nm": no Dbtr/Nm at
\* all, otherwise one), its booking date and its amount in cents
Entries == [missing : Nodes \cup {"none"}, date : Dates, cents : 0..MaxCents]

\* line 311, the fields that vary here: cents amount, booking date, the four
\* payer name slots (1: the name of the entry, 0: the empty string)
CsvLine(e) ==
    [cammount |-> Cammount(e.cents), booking_date |-> e.date,
     payer_names |-> <<IF e.missing = "Nm" THEN 0 ELSE 1, 0, 0, 0>>]

\* lines 272-275
SimpStart == [pc |-> "loop", tr_count |-> 0, tr_total |-> FZero,
              booking_date |-> 0, lines |-> <<>>]

\* the state SimpSpec starts in: ntrys2simp entered, nothing else running
SimpInit ==
    /\ mode = "direct" /\ force = FALSE /\ srv = {} /\ raw = FALSE
    /\ pc = "ntrys2simp" /\ slot = 0 /\ data = NewData /\ reports = <<>>
    /\ reqs = <<>> /\ errLog = 0 /\ xform = {} /\ out = <<>>
    /\ mailed = FALSE /\ result = FALSE /\ exitCode = -1 /\ exc = "none"
    /\ calls = 0
    /\ doc = DocIdle
    /\ ntrys = <<>>
    /\ simp = SimpStart

mainvars == <<mode, force, srv, raw, pc, slot, data, reports, reqs, errLog,
              xform, out, mailed, result, exitCode, exc, calls>>

\* lines 277-312: one pass of the for loop, on the next Ntry of the response
NtryStep ==
    /\ simp.pc = "loop"
    /\ Len(ntrys) < MaxEntries
    /\ \E e \in Entries :
          /\ ntrys' = Append(ntrys, e)
          /\ simp' = IF e.missing \in Nodes \ SoftNodes
                     THEN \* xpath(...)[0] raises IndexError
                          [simp EXCEPT !.pc = "raised",
                                       !.tr_count = simp.tr_count + 1]
                     ELSE [simp EXCEPT
                              !.tr_count = simp.tr_count + 1,
                              !.booking_date = e.date,
                              !.tr_total = FloatAdd(simp.tr_total,
                                                    FloatOfCents(e.cents)),
                              !.lines = Append(simp.lines, CsvLine(e))]
    /\ UNCHANGED <<mainvars, doc>>

\* lines 315-320: header, lines, footer; get_report calls ntrys2simp with at
\* least one Ntry (line 217)
SimpReturn ==
    /\ simp.pc = "loop"
    /\ Len(ntrys) > 0
    /\ simp' = [simp EXCEPT !.pc = "done"]
    /\ UNCHANGED <<mainvars, doc, ntrys>>

SimpNext == NtryStep \/ SimpReturn

SimpSpec == SimpInit /\ [][SimpNext]_vars

\* ======================================================================
\* remove_namespace (lines 33-41)
\* ======================================================================
MaxElems == 2     \* nodes of a document
MaxPasses == 2    \* applications of remove_namespace to one document

\* names without braces, and the tags lxml gives a parsed element: the local
\* name, or {namespace}local name
Names == {<<"a">>, <<"b">>, <<"a", "b">>}
Tags == Names \cup {<<"{">> \o ns \o <<"}">> \o l : ns \in Names, l \in Names}

\* a node of the tree: an element (type ET._Element) with its tag, or a
\* comment / processing instruction, whose tag is not a string
DocNodes == [el : {TRUE}, tag : Tags] \cup {[el |-> FALSE, tag |-> <<>>]}
Docs == UNION {[1..n -> DocNodes] : n \in 1..MaxElems}

\* str.startswith, str.find (-1: not found), tag[n:]
StartsWith(t, ch) == Len(t) > 0 /\ t[1] = ch
Find(t, ch) ==
    IF \E i \in 1..Len(t) : t[i] = ch
    THEN (CHOOSE i \in 1..Len(t) : t[i] = ch /\ \A j \in 1..(i - 1) : t[j] # ch) - 1
    ELSE -1
SliceFrom(t, n) == SubSeq(t, n + 1, Len(t))

\* lines 37-39
StripTag_noGuard(t) == SliceFrom(t, Find(t, "}") + 2)

StripTag(t) ==
    IF StartsWith(t, "{") THEN SliceFrom(t, Find(t, "}") + 1) ELSE t

\* lines 35-41: every ET._Element of the document, in place
remove_namespace(d) ==
    [i \in 1..Len(d) |-> IF d[i].el THEN [d[i] EXCEPT !.tag = StripTag(d[i].tag)]
                         ELSE d[i]]

NsInit ==
    /\ mode = "direct" /\ force = FALSE /\ srv = {} /\ raw = FALSE
    /\ pc = "remove_namespace" /\ slot = 0 /\ data = NewData /\ reports = <<>>
    /\ reqs = <<>> /\ errLog = 0 /\ xform = {} /\ out = <<>>
    /\ mailed = FALSE /\ result = FALSE /\ exitCode = -1 /\ exc = "none"
    /\ calls = 0
    /\ ntrys = <<>>
    /\ simp = SimpIdle
    /\ \E d \in Docs :
          doc = [pc |-> "parsed", input |-> d, cur |-> d, once |-> d, passes |-> 0]

\* one call remove_namespace(doc); once keeps the result of the first call
Normalize ==
    /\ doc.pc = "parsed"
    /\ doc.passes < MaxPasses
    /\ doc' = [doc EXCEPT !.cur = remove_namespace(doc.cur),
                          !.once = IF doc.passes = 0 THEN remove_namespace(doc.cur)
                                   ELSE doc.once,
                          !.passes = doc.passes + 1]
    /\ UNCHANGED <<mainvars, ntrys, simp>>

NsNext == Normalize

NsSpec == NsInit /\ [][NsNext]_vars

\* ======================================================================
\* Properties
\* ======================================================================
Finished == pc \in {"returned", "handled", "exit"}
TrueIdx == {i \in 1..Len(reports) : reports[i].status = TRUE}
IsProbe(i) == reqs[i].kind = "probe"
IsFetch(i) == reqs[i].kind = "fetch"

\* C1 (as stated): when get_reports finishes in the itemized format,
\* self.reports holds exactly N records, N the number of reports the bank
\* holds for the date, all with status = true; the failed final probe is not
\* in the list.
C1_ExactlyNRecords ==
    (Finished /\ ~raw) =>
        /\ Len(reports) = Cardinality(srv)
        /\ \A i \in 1..Len(reports) : reports[i].status = TRUE

\* C2 (as stated): a probe answered with a business error is the last SOAP
\* request of the date; no fetch for the unmaterialized slot follows it.
C2_NoRequestAfterFailedProbe ==
    \A i \in 1..Len(reqs) :
        (IsProbe(i) /\ reqs[i].res = "rule") => i = Len(reqs)

\* C3: in every state of a get_reports run, every record of self.reports
\* but possibly the last has status = true: a status = false record is the
\* final element and nothing is appended after it.
C3_OnlyLastMayFail ==
    \A i \in 1..Len(reports) : i < Len(reports) => reports[i].status = TRUE

C3_Witness ==
    /\ Len(reports) >= 3
    /\ reports[Len(reports)].status = FALSE
    /\ pc = "returned"

\* C4 (as stated): over one get_reports run a business error is logged at
\* error level at most once, and for a date with no reports exactly once.
C4_ErrorLoggedOnce ==
    /\ errLog <= 1
    /\ (Finished /\ srv = {}) => errLog = 1

\* C5 (as stated): the process exits with 0 when the run produced a usable
\* report and with 12 when it completed without producing one.
C5_ExitCode ==
    pc = "exit" =>
        exitCode = IF \E i \in 1..Len(reports) : Usable(reports[i]) THEN 0 ELSE 12

\* C6: the first probe of a date is for slot 0; after a probe that resolves
\* to the bank's report id r the fetch is sent for r and the next probe for
\* r + 1 (not for the slot, resp. the slot + 1).
C6_FetchAndNextProbeUseReportId ==
    /\ Len(reqs) > 0 => (IsProbe(1) /\ reqs[1].id = 0)
    /\ \A i \in 1..Len(reqs) :
          (IsProbe(i) /\ reqs[i].res = "ok") =>
              LET r == Resolve(srv, reqs[i].id)
              IN  /\ i + 1 <= Len(reqs) => (IsFetch(i + 1) /\ reqs[i + 1].id = r)
                  /\ i + 2 <= Len(reqs) => (IsProbe(i + 2) /\ reqs[i + 2].id = r + 1)

C6_Witness ==
    \E i \in 1..Len(reqs) :
        /\ IsProbe(i) /\ reqs[i].res = "ok"
        /\ Resolve(srv, reqs[i].id) # reqs[i].id
        /\ i + 2 <= Len(reqs)

\* C7 (as stated): in the RAW format get_reports stops after the first
\* fetch: no probe is sent after a fetch.
C7_RawShortCircuits ==
    raw => \A i, j \in 1..Len(reqs) : (i < j /\ IsFetch(i)) => ~IsProbe(j)

\* C7 (amended): the RAW format does not short-circuit.  In either format a
\* fetch that followed a successful probe is followed by the probe for the
\* next id, and a get_reports call that finishes has appended a status =
\* true record for every report the bank holds for the date.
C7_BothFormatsLoop ==
    /\ \A i \in 2..Len(reqs) :
          (IsFetch(i) /\ reqs[i - 1].res = "ok" /\ reqs[i].res # "exc") =>
              /\ Finished => i < Len(reqs)
              /\ i < Len(reqs) => IsProbe(i + 1)
    /\ Finished => {reports[i].rpt_id : i \in TrueIdx} = srv

C7_Witness ==
    /\ raw
    /\ pc = "returned"
    /\ Cardinality(TrueIdx) >= 2

\* C8: in the itemized format a fetch that follows a successful probe and
\* carries no Ntry is no error: a record with status = true, trans_count = 0
\* and empty text is appended, ntrys2simp is not invoked for it, and the
\* pagination goes on with the probe for the next id.
C8_EmptyReportIsAppended ==
    ~raw =>
        \A j \in 2..Len(reqs) :
            (IsFetch(j) /\ reqs[j].res = "ok" /\ reqs[j].cnt = 0) =>
                /\ \E i \in 1..Len(reports) :
                      /\ reports[i].rpt_id = reqs[j].id
                      /\ reports[i].status = TRUE
                      /\ reports[i].trans_count = 0
                      /\ reports[i].simp_report = EmptyText
                /\ reqs[j].id \notin xform
                /\ Finished => j < Len(reqs)
                /\ j < Len(reqs) => (IsProbe(j + 1) /\ reqs[j + 1].id = reqs[j].id + 1)

C8_Witness ==
    /\ ~raw
    /\ \E j \in 2..Len(reqs) :
          /\ IsFetch(j) /\ reqs[j].res = "ok" /\ reqs[j].cnt = 0
          /\ j + 2 <= Len(reqs)
          /\ reqs[j + 1].res = "ok"

\* C9: with the bank holding finitely many reports and answering as
\* described, every get_reports call that no exception ends reaches Done,
\* with the force flag set and with it clear.
C9_PaginationTerminates ==
    \A f \in BOOLEAN :
        (force = f /\ pc = "probe") ~> (force = f /\ (pc = "returned" \/ exc # "none"))

C9_Witness ==
    /\ force
    /\ pc = "returned"
    /\ Cardinality(TrueIdx) >= 2

\* C10 (as stated): a decode failure on the k-th report leaves the reports
\* accumulated before it delivered by the run.
C10_PriorReportsDelivered ==
    (exc = "decode" /\ mode # "direct") =>
        \A i \in 1..Len(reports) :
            Usable(reports[i]) => \E j \in 1..Len(out) : out[j] = reports[i]

\* C11 (as stated): a node missing from an entry is a soft default and is
\* never fatal: ntrys2simp does not raise, whichever node an entry lacks.
C11_MissingNodeNeverFatal ==
    (\E i \in 1..Len(ntrys) : ntrys[i].missing # "none") => simp.pc # "raised"

\* C12: a transport or parse failure of a SOAP request is fatal for the run:
\* the failing request is the last one sent (no retry, no further request),
\* no record is appended for the failing step, the handler does not return a
\* result and the run ends with a non-zero exit status.
NonExcFetches == {j \in 1..Len(reqs) : IsFetch(j) /\ reqs[j].res # "exc"}

C12_TransportFailureIsFatal ==
    /\ \A j \in 1..Len(reqs) : reqs[j].res = "exc" => (exc = "transport" /\ j = Len(reqs))
    /\ exc = "transport" =>
          /\ pc = "crashed"
          /\ reqs[Len(reqs)].res = "exc"
          /\ Len(reports) = Cardinality(NonExcFetches)
          /\ result = FALSE
          /\ out = <<>> /\ mailed = FALSE
          /\ exitCode # 0 /\ exitCode # -1

C12_Witness ==
    /\ exc = "transport"
    /\ Len(reqs) >= 4
    /\ IsFetch(Len(reqs))
    /\ mode = "save"

\* C13: process_report_file_xml does not fail on absent nodes: without
\* RptDtls or without RptFile the report text is empty, without RptNm the
\* file name is the fallback keyed by the report date, and with RptNm it is
\* RptNm + '.txt'.  (In the RAW format the fetch of reports[i] is reqs[2i].)
C13_DecoderSoftDefaults ==
    raw =>
        /\ \A i \in 1..Len(reports) :
              LET b == reqs[2 * i].body
                  r == reports[i]
              IN  /\ IsFetch(2 * i)
                  /\ (~b.dtls \/ ~b.file) => r.simp_report = EmptyText
                  /\ (b.dtls /\ b.file) => r.simp_report = [kind |-> "raw", cnt |-> b.cnt]
                  /\ (~b.dtls \/ ~b.nm) => r.simp_report_fn = [kind |-> "temp", n |-> 0]
                  /\ (b.dtls /\ b.nm) => r.simp_report_fn = [kind |-> "RptNm", n |-> r.rpt_id]
        /\ \A j \in 1..Len(reqs) :
              (IsFetch(j) /\ reqs[j].res # "exc" /\ pc # "crashed") => j <= 2 * Len(reports)
        /\ exc = "decode" => (reqs[Len(reqs)].body.dtls /\ reqs[Len(reqs)].body.file)

C13_Witness ==
    /\ raw
    /\ Len(reports) >= 2
    /\ reports[1].status /\ reports[2].status
    /\ reqs[2].body.dtls /\ ~reqs[2].body.file /\ ~reqs[2].body.nm
    /\ reqs[4].body.dtls /\ reqs[4].body.file /\ reqs[4].body.nm

\* C14 (as stated): in save mode, once discovery is done, one file is
\* written for each record with status = true, and the files of distinct
\* reports have distinct names.
C14_OneFilePerResolvedReport ==
    (mode = "save" /\ pc \in {"handled", "exit"}) =>
        /\ Len(out) = Cardinality(TrueIdx)
        /\ \A i, j \in 1..Len(out) :
              i # j => out[i].simp_report_fn # out[j].simp_report_fn

\* the part of C14 about names alone: two reports written in one run never
\* share a file name
C14_DistinctFileNames ==
    (mode = "save" /\ pc \in {"handled", "exit"}) =>
        \A i, j \in 1..Len(out) :
            i # j => out[i].simp_report_fn # out[j].simp_report_fn

\* C15 (as stated): the cents amount written in the CSV line of an entry is
\* round(amount * 100): for the amount k / 100 it is k, never k - 1.
C15_CentsIsRounded ==
    \A i \in 1..Len(simp.lines) : simp.lines[i].cammount = ntrys[i].cents

\* C16 (as stated): for a non-empty entry sequence ntrys2simp returns a
\* header with the booking date of the last entry processed, one CSV line
\* per entry in input order, and a footer whose count is the number of
\* entries and whose total is the sum of the entries' amounts (the number
\* that is written like the decimal sum).
RECURSIVE SumCents(_)
SumCents(es) == IF es = <<>> THEN 0 ELSE SumCents(Front(es)) + es[Len(es)].cents

C16_HeaderLinesFooter ==
    simp.pc = "done" =>
        /\ simp.booking_date = ntrys[Len(ntrys)].date
        /\ Len(simp.lines) = Len(ntrys)
        /\ \A i \in 1..Len(ntrys) :
              /\ simp.lines[i].booking_date = ntrys[i].date
              /\ simp.lines[i].payer_names[1] = (IF ntrys[i].missing = "Nm" THEN 0 ELSE 1)
        /\ simp.tr_count = Len(ntrys)
        /\ simp.tr_total = FloatOfCents(SumCents(ntrys))

\* C17: remove_namespace is idempotent: applied twice (or more) it leaves the
\* tag names it left when applied once; and it changes nothing in a document
\* whose tags carry no namespace.
NoNamespace(d) == \A i \in 1..Len(d) : ~StartsWith(d[i].tag, "{")

C17_NormalizerIdempotent ==
    doc.pc = "parsed" =>
        /\ doc.passes >= 1 => doc.cur = doc.once
        /\ (doc.passes >= 1 /\ NoNamespace(doc.input)) => doc.cur = doc.input

C17_Witness ==
    /\ doc.pc = "parsed"
    /\ doc.passes = 2
    /\ Len(doc.input) = 2
    /\ ~NoNamespace(doc.input)
    /\ doc.cur # doc.input
    /\ NoNamespace(doc.cur)

\* C18: the status of a record is the outcome of its probe alone.  A fetch
\* answered with a business error after a successful probe still appends a
\* record with status = true for that report id, the run does not stop there,
\* and the next request is the probe for report id + 1.  (Answered: the
\* fetches that no exception ended.)
Answered == {j \in 1..Len(reqs) : IsFetch(j) /\ ~(exc # "none" /\ j = Len(reqs))}

C18_StatusFromProbeAlone ==
    \A j \in Answered :
            LET k == Cardinality({i \in Answered : i <= j})
            IN  /\ k <= Len(reports)
                /\ reports[k].rpt_id = reqs[j].id
                /\ reports[k].status = (reqs[j - 1].res = "ok")
                /\ (reqs[j - 1].res = "ok" /\ reqs[j].res = "rule") =>
                      /\ Finished => j < Len(reqs)
                      /\ j < Len(reqs) =>
                            (IsProbe(j + 1) /\ reqs[j + 1].id = reqs[j].id + 1)

C18_Witness ==
    \E j \in 2..Len(reqs) :
        /\ IsFetch(j) /\ reqs[j].res = "rule"
        /\ reqs[j - 1].res = "ok"
        /\ reqs[j].id \in srv
        /\ reports[j \div 2].status = TRUE
        /\ j < Len(reqs)
        /\ pc = "returned"

\* C19: get_reports calls on one object do not depend on each other: in
\* every call, the earlier ones included or not, self.reports holds one
\* record per fetch answered in this call and nothing else, and the
\* error-level lines of the call are those of its business errors met while
\* its own list was empty (its first probe and the fetch after it).
C19_RunsAreStateFree ==
    /\ Len(reports) = Cardinality(Answered)
    /\ \A j \in Answered :
          reports[Cardinality({i \in Answered : i <= j})].rpt_id = reqs[j].id
    /\ errLog = Cardinality({i \in 1..Len(reqs) : i <= 2 /\ reqs[i].res = "rule"})

C19_Witness ==
    /\ calls = 2
    /\ pc = "returned"
    /\ Len(reports) = 1
    /\ errLog >= 1

\* C20: in the modes get, save and send nothing is printed, written or
\* mailed before the pagination loop has finished (its last record is the
\* one of the failed probe); a record with status = false is never among
\* what is output; and in send mode send_mail is called if and only if at
\* least one report file was written in the run, in the other modes never.
C20_OutputAfterPagination ==
    /\ (Len(out) > 0 \/ mailed) =>
          /\ pc \in {"handled", "exit"}
          /\ exc = "none"
          /\ Len(reports) > 0
          /\ reports[Len(reports)].status = FALSE
          /\ reqs[Len(reqs)].res # "exc"
    /\ \A j \in 1..Len(out) :
          /\ out[j].status = TRUE
          /\ \E i \in 1..Len(reports) : reports[i] = out[j]
    /\ pc \in {"handled", "exit"} =>
          (mailed <=> (mode = "send" /\ Len(out) > 0))
    /\ pc \notin {"handled", "exit"} => ~mailed

C20_Witness ==
    /\ mode = "send"
    /\ pc = "exit"
    /\ mailed
    /\ Len(out) = 2
    /\ Len(reports) = 3

====
